---- MODULE Spec2Model ----
(***************************************************************************)
(* Model of the thor node core:                                            *)
(*   - the consent goroutine and the pack goroutine of cmd/thor/client.go  *)
(*     (action, events.consent, events.pack) with the three unbuffered     *)
(*     channels newBlockPacked, newBlockAck and bestBlockUpdate;           *)
(*   - the EVM state facade of vm/statedb/statedb.go (StateDB) on top of   *)
(*     a checkpointed State and a stacked journal.                         *)
(* The chain store, consenter, packer, transaction iterator, State and     *)
(* stackedmap are collaborators whose code is not part of the sources at   *)
(* hand; they are modelled from their documented contracts.                *)
(***************************************************************************)
EXTENDS Integers, Sequences, FiniteSets, TLC

\* ------------------------------------------------------------------ bounds
\* number of distinct foreign blocks the network may deliver
NumNet == 2
\* number of blocks the local packer may commit
MaxPacked == 2
\* total number of deliveries on the network subscription
MaxDeliver == 3
\* number of transactions the pool iterator yields
NumTx == 2

\* ------------------------------------------------------------------ node state
VARIABLES
    cancelled,   \* root context c cancelled (client.go:166, 225)
    cpc,         \* position of the consent goroutine
    cblk,        \* blk held by events.consent
    cres,        \* result of cs.Consent / cs.IsTrunk: "err", or the trunk flag
    lastRet,     \* how the last call of events.consent returned
    ppc,         \* position of the pack goroutine
    pbest,       \* bestBlock read by events.pack
    pblk,        \* blk returned by commit
    perr,        \* err of the last adopt call of this attempt
    chain,       \* chain store: block id -> "absent" | "trunk" | "branch"
    best,        \* chain store: best block pointer
    txPos,       \* number of transactions already drawn from txIter
    addCalls,    \* history: number of ch.AddBlock calls per block id
    bcast,       \* history: number of cm.BroadcastBlock calls per block id
    consented,   \* history: block ids cs.Consent was called on
    adoptCalls,  \* history: number of adopt calls per transaction
    nDeliv,      \* history: number of receives on blockCh
    nPacked,     \* history: number of blocks commit returned
    nSent,       \* history: number of completed sends on newBlockPacked
    nAck,        \* history: number of completed sends on newBlockAck
    nUpd         \* history: number of delivered bestBlockUpdate signals

nodeVars == <<cancelled, cpc, cblk, cres, lastRet, ppc, pbest, pblk, perr, chain, best,
              txPos, addCalls, bcast, consented, adoptCalls, nDeliv, nPacked,
              nSent, nAck, nUpd>>

consentVars == <<cpc, cblk, cres, lastRet>>
packVars == <<ppc, pbest, pblk, perr, txPos, adoptCalls, nPacked>>
chainVars == <<chain, best, addCalls>>

\* ------------------------------------------------------------------ facade state
VARIABLES
    state,        \* underlying State: address -> account
    checkpoints,  \* underlying State: stack of checkpointed account maps
    repo,         \* stackedmap: base frame followed by the pushed frames
    lastOp,       \* the last facade call: name, arguments, result, State accesses
    saved,        \* history: revision token -> observables just before its snapshot()
    issued,       \* history: the revision tokens Snapshot() returned, in order
    nOps          \* number of facade calls made

dbVars == <<state, checkpoints, repo, lastOp, saved, issued, nOps>>

vars == <<nodeVars, dbVars>>

\* ------------------------------------------------------------------ blocks
Genesis == 0
NetBlocks == 1..NumNet
PackedBlocks == (NumNet + 1)..(NumNet + MaxPacked)
Blocks == {Genesis} \cup NetBlocks \cup PackedBlocks
Txs == 1..NumTx
NoBlock == -1

\* results of cs.Consent and cs.IsTrunk: an error, or the trunk flag
Verdicts == {"err", "trunk", "branch"}

\* ch.GetBlockHeader(id) followed by ch.IsNotFound(err)
IsNotFound(b) == chain[b] = "absent"

\* ch.AddBlock(blk, trunk): the store keeps at most one block per id; a trunk
\* block becomes the best block
AddBlock(b, trunk) ==
    /\ chain' = [chain EXCEPT ![b] = IF chain[b] = "absent"
                                        THEN (IF trunk THEN "trunk" ELSE "branch")
                                        ELSE chain[b]]
    /\ best' = IF trunk /\ chain[b] = "absent" THEN b ELSE best
    /\ addCalls' = [addCalls EXCEPT ![b] = @ + 1]

\* cm.BroadcastBlock(blk)
BroadcastBlock(b) == bcast' = [bcast EXCEPT ![b] = @ + 1]

\* blocks the network subscription can deliver: foreign blocks, and blocks this
\* node has itself broadcast (echoed back by peers)
Deliverable == NetBlocks \cup {b \in PackedBlocks : bcast[b] > 0}

InitNode ==
    /\ cancelled = FALSE
    /\ cpc = "loop"
    /\ cblk = NoBlock
    /\ cres = "none"
    /\ lastRet = "none"
    /\ ppc = "tick"
    /\ pbest = NoBlock
    /\ pblk = NoBlock
    /\ perr = "none"
    /\ chain = [b \in Blocks |-> IF b = Genesis THEN "trunk" ELSE "absent"]
    /\ best = Genesis
    /\ txPos = 0
    /\ addCalls = [b \in Blocks |-> 0]
    /\ bcast = [b \in Blocks |-> 0]
    /\ consented = {}
    /\ adoptCalls = [t \in Txs |-> 0]
    /\ nDeliv = 0
    /\ nPacked = 0
    /\ nSent = 0
    /\ nAck = 0
    /\ nUpd = 0

\* ------------------------------------------------------------------ shutdown
\* the interrupt arrives: cancel()
Interrupt ==
    /\ ~cancelled
    /\ cancelled' = TRUE
    /\ UNCHANGED <<consentVars, packVars, chainVars, bcast, consented, nDeliv,
                   nSent, nAck, nUpd>>
    /\ UNCHANGED dbVars

\* ------------------------------------------------------------------ consent goroutine
\* for { select { case <-c.Done(): sub.Unsubscribe(); return
ConsentLoopDone ==
    /\ cpc = "loop"
    /\ cancelled
    /\ cpc' = "done"
    /\ cblk' = NoBlock /\ cres' = "none" /\ lastRet' = "none"
    /\ UNCHANGED <<cancelled, packVars, chainVars, bcast, consented, nDeliv, nSent,
                   nAck, nUpd>>
    /\ UNCHANGED dbVars

\* default: es.consent(c, blockCh, cm, ch, cs)
ConsentLoopCall ==
    /\ cpc = "loop"
    /\ ~cancelled
    /\ cpc' = "select"
    /\ cblk' = NoBlock /\ cres' = "none" /\ lastRet' = "none"
    /\ UNCHANGED <<cancelled, packVars, chainVars, bcast, consented, nDeliv, nSent,
                   nAck, nUpd>>
    /\ UNCHANGED dbVars

\* case blk := <-blockCh
ConsentRecvNet(b) ==
    /\ cpc = "select"
    /\ b \in Deliverable
    /\ nDeliv < MaxDeliver
    /\ nDeliv' = nDeliv + 1
    /\ cblk' = b
    /\ cpc' = "netCheck"
    /\ UNCHANGED <<cancelled, cres, lastRet, packVars, chainVars, bcast, consented,
                   nSent, nAck, nUpd>>
    /\ UNCHANGED dbVars

\* variant of ConsentDedupe: the lookup is missing, every delivery is validated
ConsentDedupe_Missing ==
    /\ cpc = "netCheck"
    /\ cpc' = "netConsent"
    /\ UNCHANGED <<cancelled, cblk, cres, lastRet, packVars, chainVars, bcast,
                   consented, nDeliv, nSent, nAck, nUpd>>
    /\ UNCHANGED dbVars

\* variant of ConsentDedupe: the test is inverted, a known id goes on to validation
ConsentDedupe_Inverted ==
    /\ cpc = "netCheck"
    /\ IF ~IsNotFound(cblk)
          THEN cpc' = "netConsent" /\ UNCHANGED lastRet
          ELSE cpc' = "loop" /\ lastRet' = "dup"
    /\ UNCHANGED <<cancelled, cblk, cres, packVars, chainVars, bcast, consented,
                   nDeliv, nSent, nAck, nUpd>>
    /\ UNCHANGED dbVars

\* if _, err := ch.GetBlockHeader(id); !ch.IsNotFound(err) { return }
ConsentDedupe ==
    /\ cpc = "netCheck"
    /\ IF IsNotFound(cblk)
          THEN cpc' = "netConsent" /\ UNCHANGED lastRet
          ELSE cpc' = "loop" /\ lastRet' = "dup"
    /\ UNCHANGED <<cancelled, cblk, cres, packVars, chainVars, bcast, consented,
                   nDeliv, nSent, nAck, nUpd>>
    /\ UNCHANGED dbVars

\* variant of ConsentValidate: the error of cs.Consent is not looked at
ConsentValidate_IgnoreErr(v) ==
    /\ cpc = "netConsent"
    /\ consented' = consented \cup {cblk}
    /\ cpc' = "netAdd"
    /\ cres' = v
    /\ UNCHANGED <<cancelled, cblk, lastRet, packVars, chainVars, bcast, nDeliv,
                   nSent, nAck, nUpd>>
    /\ UNCHANGED dbVars

\* trunk, _, err := cs.Consent(blk, now); on error: log.Warn(... bad)
ConsentValidate(v) ==
    /\ cpc = "netConsent"
    /\ consented' = consented \cup {cblk}
    /\ IF v = "err"
          THEN cpc' = "loop" /\ lastRet' = "bad"
          ELSE cpc' = "netAdd" /\ UNCHANGED lastRet
    /\ cres' = v
    /\ UNCHANGED <<cancelled, cblk, packVars, chainVars, bcast, nDeliv, nSent, nAck,
                   nUpd>>
    /\ UNCHANGED dbVars

\* ch.AddBlock(blk, trunk); not trunk: log.Info(... branch)
ConsentAddNet ==
    /\ cpc = "netAdd"
    /\ AddBlock(cblk, cres = "trunk")
    /\ IF cres = "trunk"
          THEN cpc' = "netBroadcast" /\ UNCHANGED lastRet
          ELSE cpc' = "loop" /\ lastRet' = "branch"
    /\ UNCHANGED <<cancelled, cblk, cres, packVars, bcast, consented, nDeliv,
                   nSent, nAck, nUpd>>
    /\ UNCHANGED dbVars

\* log.Info(... trunk); cm.BroadcastBlock(blk)
ConsentBroadcastNet ==
    /\ cpc = "netBroadcast"
    /\ BroadcastBlock(cblk)
    /\ cpc' = "netNotify"
    /\ UNCHANGED <<cancelled, cblk, cres, lastRet, packVars, chainVars, consented,
                   nDeliv, nSent, nAck, nUpd>>
    /\ UNCHANGED dbVars

\* variant of ConsentNotify: the signal is never sent
ConsentNotify_NoSend ==
    /\ cpc = "netNotify"
    /\ cpc' = "loop"
    /\ lastRet' = "trunkDropped"
    /\ UNCHANGED <<cancelled, cblk, cres, packVars, chainVars, bcast, consented,
                   nDeliv, nSent, nAck, nUpd>>
    /\ UNCHANGED dbVars

\* select { case es.bestBlockUpdate <- struct{}{}: default: }
\* the send succeeds exactly when the pack goroutine is parked in its select,
\* which then takes case <-es.bestBlockUpdate: return
ConsentNotify ==
    /\ cpc = "netNotify"
    /\ IF ppc = "wait"
          THEN /\ ppc' = "tick" /\ pbest' = NoBlock
               /\ nUpd' = nUpd + 1 /\ lastRet' = "trunkSignalled"
          ELSE /\ UNCHANGED <<ppc, pbest, nUpd>>
               /\ lastRet' = "trunkDropped"
    /\ cpc' = "loop"
    /\ UNCHANGED <<cancelled, cblk, cres, pblk, txPos, adoptCalls, perr, nPacked,
                   chainVars, bcast, consented, nDeliv, nSent, nAck>>
    /\ UNCHANGED dbVars

\* case blk := <-es.newBlockPacked, the rendezvous with es.newBlockPacked <- blk
ConsentRecvPacked ==
    /\ cpc = "select"
    /\ ppc = "sendPacked"
    /\ cblk' = pblk
    /\ cpc' = "pkIsTrunk"
    /\ ppc' = "waitAck"
    /\ nSent' = nSent + 1
    /\ UNCHANGED <<cancelled, cres, lastRet, pbest, pblk, txPos, adoptCalls, perr, nPacked,
                   chainVars, bcast, consented, nDeliv, nAck, nUpd>>
    /\ UNCHANGED dbVars

\* variant of ConsentIsTrunk: the ack is sent before the block is added
ConsentIsTrunk_AckBeforeAdd(v) ==
    /\ cpc = "pkIsTrunk"
    /\ IF v = "err"
          THEN cpc' = "loop" /\ lastRet' = "packedErr"
          ELSE cpc' = "pkAck" /\ UNCHANGED lastRet
    /\ cres' = v
    /\ UNCHANGED <<cancelled, cblk, packVars, chainVars, bcast, consented, nDeliv,
                   nSent, nAck, nUpd>>
    /\ UNCHANGED dbVars

\* if trunk, err := cs.IsTrunk(blk.Header()); err == nil { ... }
ConsentIsTrunk(v) ==
    /\ cpc = "pkIsTrunk"
    /\ IF v = "err"
          THEN cpc' = "loop" /\ lastRet' = "packedErr"
          ELSE cpc' = "pkAdd" /\ UNCHANGED lastRet
    /\ cres' = v
    /\ UNCHANGED <<cancelled, cblk, packVars, chainVars, bcast, consented, nDeliv,
                   nSent, nAck, nUpd>>
    /\ UNCHANGED dbVars

\* variant of ConsentAddPacked: the block is added as a trunk block whatever
\* cs.IsTrunk returned
ConsentAddPacked_AlwaysTrunk ==
    /\ cpc = "pkAdd"
    /\ AddBlock(cblk, TRUE)
    /\ cpc' = IF cres = "trunk" THEN "pkBroadcast" ELSE "pkAck"
    /\ UNCHANGED <<cancelled, cblk, cres, lastRet, packVars, bcast, consented,
                   nDeliv, nSent, nAck, nUpd>>
    /\ UNCHANGED dbVars

\* ch.AddBlock(blk, trunk)
ConsentAddPacked ==
    /\ cpc = "pkAdd"
    /\ AddBlock(cblk, cres = "trunk")
    /\ cpc' = IF cres = "trunk" THEN "pkBroadcast" ELSE "pkAck"
    /\ UNCHANGED <<cancelled, cblk, cres, lastRet, packVars, bcast, consented,
                   nDeliv, nSent, nAck, nUpd>>
    /\ UNCHANGED dbVars

\* if trunk { cm.BroadcastBlock(blk) }
ConsentBroadcastPacked ==
    /\ cpc = "pkBroadcast"
    /\ BroadcastBlock(cblk)
    /\ cpc' = "pkAck"
    /\ UNCHANGED <<cancelled, cblk, cres, lastRet, packVars, chainVars, consented,
                   nDeliv, nSent, nAck, nUpd>>
    /\ UNCHANGED dbVars

\* es.newBlockAck <- struct{}{}, the rendezvous with <-es.newBlockAck, after
\* which events.pack returns to the ticker loop
ConsentAck ==
    /\ cpc = "pkAck"
    /\ ppc = "waitAck"
    /\ nAck' = nAck + 1
    /\ cpc' = "loop"
    /\ lastRet' = "packed"
    /\ ppc' = "tick" /\ pbest' = NoBlock /\ pblk' = NoBlock
    /\ UNCHANGED <<cancelled, cblk, cres, txPos, adoptCalls, perr, nPacked,
                   chainVars, bcast, consented, nDeliv, nSent, nUpd>>
    /\ UNCHANGED dbVars

\* case <-ctx.Done(): return
ConsentCtxDone ==
    /\ cpc = "select"
    /\ cancelled
    /\ cpc' = "loop"
    /\ lastRet' = "ctx"
    /\ UNCHANGED <<cancelled, cblk, cres, packVars, chainVars, bcast, consented,
                   nDeliv, nSent, nAck, nUpd>>
    /\ UNCHANGED dbVars

Consent ==
    \/ ConsentLoopDone
    \/ ConsentLoopCall
    \/ \E b \in Blocks : ConsentRecvNet(b)
    \/ ConsentDedupe
    \/ \E v \in Verdicts : ConsentValidate(v)
    \/ ConsentAddNet
    \/ ConsentBroadcastNet
    \/ ConsentNotify
    \/ ConsentRecvPacked
    \/ \E v \in Verdicts : ConsentIsTrunk(v)
    \/ ConsentAddPacked
    \/ ConsentBroadcastPacked
    \/ ConsentAck
    \/ ConsentCtxDone

\* ------------------------------------------------------------------ pack goroutine
\* for { select { case <-c.Done(): return
PackLoopDone ==
    /\ ppc = "tick"
    /\ cancelled
    /\ ppc' = "done"
    /\ UNCHANGED <<cancelled, consentVars, pbest, pblk, txPos, adoptCalls, perr,
                   nPacked, chainVars, bcast, consented, nDeliv, nSent, nAck, nUpd>>
    /\ UNCHANGED dbVars

\* variant of PackTick: every attempt starts with an iterator of its own
PackTick_NewIterator(synced) ==
    /\ ppc = "tick"
    /\ ppc' = IF synced THEN "getBest" ELSE "tick"
    /\ txPos' = IF synced THEN 0 ELSE txPos
    /\ UNCHANGED <<cancelled, consentVars, pbest, pblk, adoptCalls, perr, nPacked,
                   chainVars, bcast, consented, nDeliv, nSent, nAck, nUpd>>
    /\ UNCHANGED dbVars

\* case <-ticker.C: if cm.IsSynced() { es.pack(...) }
PackTick(synced) ==
    /\ ppc = "tick"
    /\ ppc' = IF synced THEN "getBest" ELSE "tick"
    /\ UNCHANGED <<cancelled, consentVars, pbest, pblk, txPos, adoptCalls, perr,
                   nPacked, chainVars, bcast, consented, nDeliv, nSent, nAck, nUpd>>
    /\ UNCHANGED dbVars

\* bestBlock, err := ch.GetBestBlock(); if err != nil { return }
PackGetBest(ok) ==
    /\ ppc = "getBest"
    /\ IF ok
          THEN ppc' = "prepare" /\ pbest' = best
          ELSE ppc' = "tick" /\ UNCHANGED pbest
    /\ UNCHANGED <<cancelled, consentVars, pblk, txPos, adoptCalls, perr, nPacked,
                   chainVars, bcast, consented, nDeliv, nSent, nAck, nUpd>>
    /\ UNCHANGED dbVars

\* ts, adopt, commit, err := pk.Prepare(bestBlock.Header(), now);
\* on success: waitTime := time.NewTimer(...)
PackPrepare(ok) ==
    /\ ppc = "prepare"
    /\ ppc' = IF ok THEN "park" ELSE "tick"
    /\ pbest' = IF ok THEN pbest ELSE NoBlock
    /\ UNCHANGED <<cancelled, consentVars, pblk, txPos, adoptCalls, perr, nPacked,
                   chainVars, bcast, consented, nDeliv, nSent, nAck, nUpd>>
    /\ UNCHANGED dbVars

\* the goroutine parks in select { waitTime.C, es.bestBlockUpdate, ctx.Done() }
PackPark ==
    /\ ppc = "park"
    /\ ppc' = "wait"
    /\ UNCHANGED <<cancelled, consentVars, pbest, pblk, txPos, adoptCalls, perr,
                   nPacked, chainVars, bcast, consented, nDeliv, nSent, nAck, nUpd>>
    /\ UNCHANGED dbVars

\* case <-waitTime.C
PackTimerFires ==
    /\ ppc = "wait"
    /\ ppc' = "adopt"
    /\ UNCHANGED <<cancelled, consentVars, pbest, pblk, txPos, adoptCalls, perr,
                   nPacked, chainVars, bcast, consented, nDeliv, nSent, nAck, nUpd>>
    /\ UNCHANGED dbVars

\* case <-ctx.Done(): return
PackCtxDone ==
    /\ ppc = "wait"
    /\ cancelled
    /\ ppc' = "tick" /\ pbest' = NoBlock
    /\ UNCHANGED <<cancelled, consentVars, pblk, txPos, adoptCalls, perr, nPacked,
                   chainVars, bcast, consented, nDeliv, nSent, nAck, nUpd>>
    /\ UNCHANGED dbVars

\* variant of PackAdopt: the loop breaks on every adopt error
PackAdopt_BreakOnAnyError(r) ==
    /\ ppc = "adopt"
    /\ txPos < NumTx
    /\ txPos' = txPos + 1
    /\ adoptCalls' = [adoptCalls EXCEPT ![txPos + 1] = @ + 1]
    /\ perr' = r
    /\ ppc' = IF r # "ok" THEN "commit" ELSE "adopt"
    /\ UNCHANGED <<cancelled, consentVars, pbest, pblk, nPacked, chainVars, bcast,
                   consented, nDeliv, nSent, nAck, nUpd>>
    /\ UNCHANGED dbVars

\* for txIter.HasNext() { err := adopt(txIter.Next());
\*                        if packer.IsGasLimitReached(err) { break } }
PackAdopt(r) ==
    /\ ppc = "adopt"
    /\ txPos < NumTx
    /\ txPos' = txPos + 1
    /\ adoptCalls' = [adoptCalls EXCEPT ![txPos + 1] = @ + 1]
    /\ perr' = r
    /\ ppc' = IF r = "gasLimitReached" THEN "commit" ELSE "adopt"
    /\ UNCHANGED <<cancelled, consentVars, pbest, pblk, nPacked, chainVars, bcast,
                   consented, nDeliv, nSent, nAck, nUpd>>
    /\ UNCHANGED dbVars

\* txIter.HasNext() is false
PackAdoptEnd ==
    /\ ppc = "adopt"
    /\ txPos >= NumTx
    /\ ppc' = "commit"
    /\ UNCHANGED <<cancelled, consentVars, pbest, pblk, txPos, adoptCalls, perr,
                   nPacked, chainVars, bcast, consented, nDeliv, nSent, nAck, nUpd>>
    /\ UNCHANGED dbVars

\* if blk, _, err := commit(privateKey); err == nil { ... }
\* every committed block has a fresh id
PackCommit(ok) ==
    /\ ppc = "commit"
    /\ IF ok
          THEN /\ nPacked < MaxPacked
               /\ nPacked' = nPacked + 1
               /\ pblk' = NumNet + nPacked + 1
               /\ ppc' = "sendPacked"
          ELSE /\ ppc' = "tick"
               /\ UNCHANGED <<nPacked, pblk>>
    /\ pbest' = IF ok THEN pbest ELSE NoBlock
    /\ perr' = "none"
    /\ UNCHANGED <<cancelled, consentVars, txPos, adoptCalls, chainVars, bcast,
                   consented, nDeliv, nSent, nAck, nUpd>>
    /\ UNCHANGED dbVars

AdoptResults == {"ok", "gasLimitReached", "other"}

Pack ==
    \/ PackLoopDone
    \/ \E s \in BOOLEAN : PackTick(s)
    \/ \E ok \in BOOLEAN : PackGetBest(ok)
    \/ \E ok \in BOOLEAN : PackPrepare(ok)
    \/ PackPark
    \/ PackTimerFires
    \/ PackCtxDone
    \/ \E r \in AdoptResults : PackAdopt(r)
    \/ PackAdoptEnd
    \/ \E ok \in BOOLEAN : PackCommit(ok)

\* ------------------------------------------------------------------ underlying State
\* number of facade calls in one VM execution
MaxOps == 5

Addrs == {"a1", "a2"}
Amounts == {0, 1}
StorageKeys == {"k1"}
Codes == {<<7>>}
Hashes == {"h1"}
Preimages == {<<1>>}
RefundAmounts == {1}
\* the EVM's logs (types.Log): the statedb keeps address, topics and data only
VmLogs == {[Address |-> "a1", Topics |-> <<>>, Data |-> "d1", Index |-> 1],
           [Address |-> "a2", Topics |-> <<"t1">>, Data |-> "d2", Index |-> 2]}

EmptyAccount == [balance |-> 0, code |-> <<>>, storage |-> [k \in StorageKeys |-> 0]]

\* the State handed to New: a1 holds a balance, a2 does not exist
InitialState == [a \in Addrs |-> IF a = "a1"
                                    THEN [EmptyAccount EXCEPT !.balance = 2]
                                    ELSE EmptyAccount]

\* State.GetBalance, State.GetCode, State.GetStorage
StateGetBalance(st, a) == st[a].balance
StateGetCode(st, a) == st[a].code
StateGetStorage(st, a, k) == st[a].storage[k]
\* State.Exists: an account exists when it holds a balance or code
StateExists(st, a) == st[a].balance # 0 \/ st[a].code # <<>>
\* State.SetBalance, State.SetCode, State.SetStorage, State.Delete
StateSetBalance(st, a, v) == [st EXCEPT ![a].balance = v]
StateSetCode(st, a, c) == [st EXCEPT ![a].code = c]
StateSetStorage(st, a, k, v) == [st EXCEPT ![a].storage[k] = v]
StateDelete(st, a) == [st EXCEPT ![a] = EmptyAccount]
\* State.NewCheckpoint pushes the current accounts; State.Revert pops the last
\* checkpoint and restores it; n reverts in a row restore the n-th from the top
StateNewCheckpoint(cps, st) == Append(cps, st)
StateAfterReverts(cps, st, n) == IF n = 0 THEN st ELSE cps[Len(cps) - n + 1]
CheckpointsAfterReverts(cps, n) == SubSeq(cps, 1, Len(cps) - n)

\* ------------------------------------------------------------------ stackedmap
\* keys of the journal: suicideFlagKey(addr), refundKey{}, preimageKey(hash), logKey{}
SuicideFlagKey(a) == <<"suicideFlagKey", a>>
RefundKey == <<"refundKey", "">>
PreimageKey(h) == <<"preimageKey", h>>
LogKey == <<"logKey", "">>

\* the getter New hands to stackedmap.New: the value of a key no frame holds
Getter(k) ==
    CASE k[1] = "suicideFlagKey" -> FALSE
      [] k[1] = "refundKey" -> 0
      [] k[1] = "preimageKey" -> <<>>
      [] k[1] = "logKey" -> [Address |-> "", Topics |-> <<>>, Data |-> ""]

\* a frame is the sequence of its (key, value) entries in insertion order
FrameHas(f, k) == \E i \in 1..Len(f) : f[i].key = k
FrameGet(f, k) == f[CHOOSE i \in 1..Len(f) : f[i].key = k].val
FramePut(f, k, v) ==
    IF FrameHas(f, k)
       THEN [i \in 1..Len(f) |-> IF f[i].key = k THEN [key |-> k, val |-> v] ELSE f[i]]
       ELSE Append(f, [key |-> k, val |-> v])

\* StackedMap.Depth: the number of pushed frames (r[1] is the base frame)
RepoDepth(r) == Len(r) - 1
\* StackedMap.Get: the topmost frame that holds the key, else the getter
RepoGet(r, k) ==
    IF \E i \in 1..Len(r) : FrameHas(r[i], k)
       THEN LET top == CHOOSE i \in 1..Len(r) :
                          /\ FrameHas(r[i], k)
                          /\ \A j \in (i + 1)..Len(r) : ~FrameHas(r[j], k)
            IN FrameGet(r[top], k)
       ELSE Getter(k)
\* StackedMap.Put: writes into the topmost frame
RepoPut(r, k, v) == [r EXCEPT ![Len(r)] = FramePut(@, k, v)]
\* StackedMap.Push: opens a new frame; the facade gets the new depth back
RepoPush(r) == Append(r, <<>>)
\* StackedMap.PopTo: discards the frames above depth d
RepoPopTo(r, d) == SubSeq(r, 1, d + 1)

\* StackedMap.Journal: the live entries of all frames, bottom frame first, each
\* frame in insertion order; an entry is live when no frame above holds its key
RECURSIVE LiveEntries(_, _, _)
LiveEntries(r, i, j) ==
    IF i > Len(r) THEN <<>>
    ELSE IF j > Len(r[i]) THEN LiveEntries(r, i + 1, 1)
    ELSE LET e == r[i][j]
             live == \A h \in (i + 1)..Len(r) : ~FrameHas(r[h], e.key)
         IN (IF live THEN <<e>> ELSE <<>>) \o LiveEntries(r, i, j + 1)
RepoJournal(r) == LiveEntries(r, 1, 1)

RECURSIVE SelectKind(_, _)
SelectKind(es, kind) ==
    IF es = <<>> THEN <<>>
    ELSE (IF Head(es).key[1] = kind THEN <<Head(es)>> ELSE <<>>)
         \o SelectKind(Tail(es), kind)

\* ------------------------------------------------------------------ facade reads
GetBalance(a) == StateGetBalance(state, a)
GetCode(a) == StateGetCode(state, a)
GetCodeSize(a) == Len(StateGetCode(state, a))
GetState(a, k) == StateGetStorage(state, a, k)
Exist(a) == StateExists(state, a)
Empty(a) == ~StateExists(state, a)
HasSuicided(a) == RepoGet(repo, SuicideFlagKey(a))
GetRefund == RepoGet(repo, RefundKey)
\* GetLogs / GetPreimages with a callback that always returns true
GetLogs == LET es == SelectKind(RepoJournal(repo), "logKey")
           IN [i \in 1..Len(es) |-> es[i].val]
GetPreimages == LET es == SelectKind(RepoJournal(repo), "preimageKey")
                IN [i \in 1..Len(es) |-> <<es[i].key[2], es[i].val>>]

\* vmlogToLog: address, topics and data are copied, the rest is dropped
vmlogToLog(l) == [Address |-> l.Address, Topics |-> l.Topics, Data |-> l.Data]

\* every observable of the facade
Observables ==
    [balance   |-> [a \in Addrs |-> GetBalance(a)],
     code      |-> [a \in Addrs |-> GetCode(a)],
     storage   |-> [a \in Addrs |-> [k \in StorageKeys |-> GetState(a, k)]],
     exists    |-> [a \in Addrs |-> Exist(a)],
     suicided  |-> [a \in Addrs |-> HasSuicided(a)],
     refund    |-> GetRefund,
     logs      |-> GetLogs,
     preimages |-> GetPreimages]

\* ------------------------------------------------------------------ facade calls
\* the record of a call: reads / writes count the calls made on the State
Call(op, a, arg, ret, reads, writes) ==
    [op |-> op, addr |-> a, arg |-> arg, ret |-> ret, reads |-> reads,
     writes |-> writes, panic |-> FALSE]

\* a call can be made: the budget is not used up and no panic ended the process
CanCall == nOps < MaxOps /\ ~lastOp.panic

InitDB ==
    /\ state = InitialState
    /\ checkpoints = <<>>
    /\ repo = <<(<<>>)>>
    /\ lastOp = Call("New", "", 0, 0, 0, 0)
    /\ saved = [t \in {} |-> 0]
    /\ issued = <<>>
    /\ nOps = 0

\* variant of SubBalance: the amount.Sign() == 0 shortcut is missing
SubBalance_NoZeroCheck(a, amount) ==
    /\ CanCall
    /\ nOps' = nOps + 1
    /\ state' = StateSetBalance(state, a, StateGetBalance(state, a) - amount)
    /\ lastOp' = Call("SubBalance", a, amount, 0, 1, 1)
    /\ UNCHANGED <<checkpoints, repo, saved, issued>>
    /\ UNCHANGED nodeVars

\* func (s *StateDB) SubBalance(addr, amount)
SubBalance(a, amount) ==
    /\ CanCall
    /\ nOps' = nOps + 1
    /\ IF amount = 0
          THEN /\ UNCHANGED state
               /\ lastOp' = Call("SubBalance", a, amount, 0, 0, 0)
          ELSE /\ state' = StateSetBalance(state, a, StateGetBalance(state, a) - amount)
               /\ lastOp' = Call("SubBalance", a, amount, 0, 1, 1)
    /\ UNCHANGED <<checkpoints, repo, saved, issued>>
    /\ UNCHANGED nodeVars

\* func (s *StateDB) AddBalance(addr, amount)
AddBalance(a, amount) ==
    /\ CanCall
    /\ nOps' = nOps + 1
    /\ IF amount = 0
          THEN /\ UNCHANGED state
               /\ lastOp' = Call("AddBalance", a, amount, 0, 0, 0)
          ELSE /\ state' = StateSetBalance(state, a, StateGetBalance(state, a) + amount)
               /\ lastOp' = Call("AddBalance", a, amount, 0, 1, 1)
    /\ UNCHANGED <<checkpoints, repo, saved, issued>>
    /\ UNCHANGED nodeVars

\* func (s *StateDB) SetCode(addr, code)
SetCode(a, c) ==
    /\ CanCall
    /\ nOps' = nOps + 1
    /\ state' = StateSetCode(state, a, c)
    /\ lastOp' = Call("SetCode", a, 0, 0, 0, 1)
    /\ UNCHANGED <<checkpoints, repo, saved, issued>>
    /\ UNCHANGED nodeVars

\* func (s *StateDB) SetState(addr, key, value)
SetState(a, k, v) ==
    /\ CanCall
    /\ nOps' = nOps + 1
    /\ state' = StateSetStorage(state, a, k, v)
    /\ lastOp' = Call("SetState", a, 0, 0, 0, 1)
    /\ UNCHANGED <<checkpoints, repo, saved, issued>>
    /\ UNCHANGED nodeVars

\* variant of Suicide: the s.state.Exists check is missing
Suicide_NoExistCheck(a) ==
    /\ CanCall
    /\ nOps' = nOps + 1
    /\ state' = StateDelete(state, a)
    /\ repo' = RepoPut(repo, SuicideFlagKey(a), TRUE)
    /\ lastOp' = Call("Suicide", a, 0, TRUE, 1, 1)
    /\ UNCHANGED <<checkpoints, saved, issued>>
    /\ UNCHANGED nodeVars

\* func (s *StateDB) Suicide(addr) bool
Suicide(a) ==
    /\ CanCall
    /\ nOps' = nOps + 1
    /\ IF ~StateExists(state, a)
          THEN /\ UNCHANGED <<state, repo>>
               /\ lastOp' = Call("Suicide", a, 0, FALSE, 1, 0)
          ELSE /\ state' = StateDelete(state, a)
               /\ repo' = RepoPut(repo, SuicideFlagKey(a), TRUE)
               /\ lastOp' = Call("Suicide", a, 0, TRUE, 1, 1)
    /\ UNCHANGED <<checkpoints, saved, issued>>
    /\ UNCHANGED nodeVars

\* func (s *StateDB) AddRefund(gas)
AddRefund(gas) ==
    /\ CanCall
    /\ nOps' = nOps + 1
    /\ repo' = RepoPut(repo, RefundKey, RepoGet(repo, RefundKey) + gas)
    /\ lastOp' = Call("AddRefund", "", gas, 0, 0, 0)
    /\ UNCHANGED <<state, checkpoints, saved, issued>>
    /\ UNCHANGED nodeVars

\* func (s *StateDB) AddPreimage(hash, preimage)
AddPreimage(h, pre) ==
    /\ CanCall
    /\ nOps' = nOps + 1
    /\ repo' = RepoPut(repo, PreimageKey(h), pre)
    /\ lastOp' = Call("AddPreimage", "", 0, 0, 0, 0)
    /\ UNCHANGED <<state, checkpoints, saved, issued>>
    /\ UNCHANGED nodeVars

\* func (s *StateDB) AddLog(vmlog)
AddLog(l) ==
    /\ CanCall
    /\ nOps' = nOps + 1
    /\ repo' = RepoPut(repo, LogKey, vmlogToLog(l))
    /\ lastOp' = Call("AddLog", "", l, 0, 0, 0)
    /\ UNCHANGED <<state, checkpoints, saved, issued>>
    /\ UNCHANGED nodeVars

\* Snapshot that reads Depth() before the push and returns that
Snapshot_DepthBeforePush ==
    /\ CanCall
    /\ nOps' = nOps + 1
    /\ checkpoints' = StateNewCheckpoint(checkpoints, state)
    /\ repo' = RepoPush(repo)
    /\ LET rev == RepoDepth(repo)
       IN /\ lastOp' = Call("Snapshot", "", 0, rev, 0, 1)
          /\ saved' = [t \in DOMAIN saved \cup {rev} |->
                          IF t = rev THEN Observables ELSE saved[t]]
          /\ issued' = Append(issued, rev)
    /\ UNCHANGED state
    /\ UNCHANGED nodeVars

\* func (s *StateDB) Snapshot() int: s.state.NewCheckpoint(); rev := s.repo.Push()
Snapshot ==
    /\ CanCall
    /\ nOps' = nOps + 1
    /\ checkpoints' = StateNewCheckpoint(checkpoints, state)
    /\ repo' = RepoPush(repo)
    /\ LET rev == RepoDepth(repo')
       IN /\ lastOp' = Call("Snapshot", "", 0, rev, 0, 1)
          /\ saved' = [t \in DOMAIN saved \cup {rev} |->
                          IF t = rev THEN Observables ELSE saved[t]]
          /\ issued' = Append(issued, rev)
    /\ UNCHANGED state
    /\ UNCHANGED nodeVars

\* the revisions a caller passes: valid ones, -1, and one past the depth
Revisions == (-1)..(MaxOps + 1)

\* RevertToSnapshot without the loop of s.state.Revert() calls
RevertToSnapshot_PopOnly(rev) ==
    /\ CanCall
    /\ rev <= RepoDepth(repo) + 1
    /\ nOps' = nOps + 1
    /\ IF rev < 0 \/ rev > RepoDepth(repo)
          THEN /\ lastOp' = [Call("RevertToSnapshot", "", rev, 0, 0, 0)
                               EXCEPT !.panic = TRUE]
               /\ UNCHANGED <<state, checkpoints, repo, saved, issued>>
          ELSE /\ repo' = RepoPopTo(repo, rev)
               /\ lastOp' = Call("RevertToSnapshot", "", rev, 0, 0, 0)
               /\ saved' = [t \in {u \in DOMAIN saved : u < rev} |-> saved[t]]
               /\ UNCHANGED issued
               /\ UNCHANGED <<state, checkpoints>>
    /\ UNCHANGED nodeVars

\* RevertToSnapshot whose range test is rev <= 0 || rev > Depth()
RevertToSnapshot_RejectsZero(rev) ==
    /\ CanCall
    /\ rev <= RepoDepth(repo) + 1
    /\ nOps' = nOps + 1
    /\ IF rev <= 0 \/ rev > RepoDepth(repo)
          THEN /\ lastOp' = [Call("RevertToSnapshot", "", rev, 0, 0, 0)
                               EXCEPT !.panic = TRUE]
               /\ UNCHANGED <<state, checkpoints, repo, saved, issued>>
          ELSE LET revertCount == RepoDepth(repo) - rev
               IN /\ state' = StateAfterReverts(checkpoints, state, revertCount)
                  /\ checkpoints' = CheckpointsAfterReverts(checkpoints, revertCount)
                  /\ repo' = RepoPopTo(repo, rev)
                  /\ lastOp' = Call("RevertToSnapshot", "", rev, 0, 0, revertCount)
                  /\ saved' = [t \in {u \in DOMAIN saved : u < rev} |-> saved[t]]
                  /\ UNCHANGED issued
    /\ UNCHANGED nodeVars

\* func (s *StateDB) RevertToSnapshot(rev int)
RevertToSnapshot(rev) ==
    /\ CanCall
    /\ rev <= RepoDepth(repo) + 1
    /\ nOps' = nOps + 1
    /\ IF rev < 0 \/ rev > RepoDepth(repo)
          THEN /\ lastOp' = [Call("RevertToSnapshot", "", rev, 0, 0, 0)
                               EXCEPT !.panic = TRUE]
               /\ UNCHANGED <<state, checkpoints, repo, saved, issued>>
          ELSE LET revertCount == RepoDepth(repo) - rev
               IN /\ state' = StateAfterReverts(checkpoints, state, revertCount)
                  /\ checkpoints' = CheckpointsAfterReverts(checkpoints, revertCount)
                  /\ repo' = RepoPopTo(repo, rev)
                  /\ lastOp' = Call("RevertToSnapshot", "", rev, 0, 0, revertCount)
                  /\ saved' = [t \in {u \in DOMAIN saved : u < rev} |-> saved[t]]
                  /\ UNCHANGED issued
    /\ UNCHANGED nodeVars

NextDB ==
    \/ \E a \in Addrs, amount \in Amounts : SubBalance(a, amount)
    \/ \E a \in Addrs, amount \in Amounts : AddBalance(a, amount)
    \/ \E a \in Addrs, c \in Codes : SetCode(a, c)
    \/ \E a \in Addrs, k \in StorageKeys : SetState(a, k, 1)
    \/ \E a \in Addrs : Suicide(a)
    \/ \E gas \in RefundAmounts : AddRefund(gas)
    \/ \E h \in Hashes, pre \in Preimages : AddPreimage(h, pre)
    \/ \E l \in VmLogs : AddLog(l)
    \/ Snapshot
    \/ \E rev \in Revisions : RevertToSnapshot(rev)

\* ------------------------------------------------------------------ specifications
Init == InitNode /\ InitDB

Next ==
    \/ Interrupt
    \/ Consent
    \/ Pack

Spec == Init /\ [][Next]_vars

\* the Go scheduler runs every goroutine that can take a step
SpecFair == Spec /\ WF_vars(Consent) /\ WF_vars(Pack)

\* one VM execution on a facade
SpecDB == Init /\ [][NextDB]_vars


\* ------------------------------------------------------------------ node properties
PackedBranch == {"pkIsTrunk", "pkAdd", "pkBroadcast", "pkAck"}
PackAttempt == {"getBest", "prepare", "park", "wait", "adopt", "commit", "sendPacked"}

\* C1: every block received on newBlockPacked is answered by exactly one send on
\* newBlockAck on every path out of the packed-block branch: whenever the consent
\* goroutine is outside that branch, as many acks were sent as blocks received.
C1_EveryPackedBlockAcked ==
    (cpc \notin PackedBranch) => (nAck = nSent)

\* C2: the handoff of a packed block is serial: commit, send, AddBlock, ack and the
\* next attempt follow each other; a block is added only after it was sent, an
\* acked block is in the chain store, and while a sent block is not acked the pack
\* goroutine is receiving on newBlockAck and in no further attempt.
C2_SerialHandoff ==
    /\ nAck <= nSent /\ nSent <= nAck + 1
    /\ nSent <= nPacked /\ nPacked <= nSent + 1
    /\ (nSent = nAck + 1) <=> (ppc = "waitAck")
    /\ (nPacked = nSent + 1) <=> (ppc = "sendPacked")
    /\ (ppc \in PackAttempt \/ ppc = "tick") => (nSent = nAck)
    /\ \A b \in PackedBlocks : addCalls[b] > 0 => b - NumNet <= nSent
    /\ \A b \in PackedBlocks : b - NumNet <= nAck => chain[b] # "absent"

\* two blocks went through the handoff one after the other
C2_Witness ==
    /\ nAck = 2
    /\ lastRet = "packed"
    /\ chain[NumNet + 1] # "absent" /\ chain[NumNet + 2] # "absent"

\* C3: once the root context is cancelled, the consent goroutine and the pack
\* goroutine both eventually return.
C3_ShutdownTerminates ==
    cancelled ~> (cpc = "done" /\ ppc = "done")

\* C4: a block delivered several times by the network is added at most once and
\* broadcast at most once, and a delivery whose id is already in the chain store
\* is dropped without calling the consenter, AddBlock or BroadcastBlock.
C4_AddedOnce ==
    /\ [](\A b \in Blocks : addCalls[b] <= 1 /\ bcast[b] <= 1)
    /\ [][(cpc = "netCheck" /\ ~IsNotFound(cblk))
            => /\ UNCHANGED <<consented, chain, best, addCalls, bcast, nUpd>>
               /\ cpc' \in {"netCheck", "loop"}]_vars

\* a block that was added and broadcast has been delivered again and dropped
C4_Witness ==
    /\ lastRet = "dup"
    /\ cblk \in NetBlocks
    /\ nDeliv >= 2
    /\ addCalls[cblk] = 1
    /\ bcast[cblk] = 1

\* C6: when the consent goroutine reaches its non-blocking send on bestBlockUpdate
\* for an accepted trunk block while the pack goroutine is parked in its wait
\* select, the signal is delivered and events.pack returns to the ticker loop
\* without drawing a transaction, adopting, committing or sending a block.
C6_UpdateAbortsWait ==
    [][(cpc = "netNotify" /\ ppc = "wait" /\ cpc' # cpc)
         => /\ nUpd' = nUpd + 1
            /\ ppc' = "tick"
            /\ UNCHANGED <<txPos, adoptCalls, nPacked, pblk, nSent>>]_vars

\* the signal was delivered for a trunk block received from the network
C6_Witness ==
    /\ lastRet = "trunkSignalled"
    /\ chain[cblk] = "trunk"
    /\ nUpd >= 1

\* C9: a network block the consenter rejects is not added, not broadcast and
\* signals nothing; every broadcast block is in the chain store as a trunk block,
\* every delivered bestBlockUpdate belongs to an accepted trunk block of the
\* network, and a network block accepted off trunk is added but not broadcast.
C9_RejectedNotAdded ==
    /\ (cres = "err") => (cpc = "loop" /\ lastRet \in {"bad", "packedErr"})
    /\ (lastRet = "bad")
          => (chain[cblk] = "absent" /\ addCalls[cblk] = 0 /\ bcast[cblk] = 0)
    /\ \A b \in Blocks : bcast[b] > 0 => chain[b] = "trunk"
    /\ (lastRet = "branch") => (chain[cblk] = "branch" /\ bcast[cblk] = 0)
    /\ nUpd <= Cardinality({b \in NetBlocks : chain[b] = "trunk" /\ bcast[b] > 0})

\* one network block was rejected, another accepted off trunk
C9_Witness ==
    /\ lastRet = "bad"
    /\ cblk \in consented
    /\ \E b \in NetBlocks : chain[b] = "branch" /\ addCalls[b] = 1

\* C10: a locally packed block for which cs.IsTrunk succeeds with flag t is added
\* with on_trunk = t without cs.Consent being called on it, is broadcast exactly
\* when t is true, and the ack is sent after that.
C10_PackedAdded ==
    /\ (cpc = "pkAck" \/ lastRet = "packed")
          => /\ cres \in {"trunk", "branch"}
             /\ chain[cblk] = cres
             /\ addCalls[cblk] = 1
             /\ bcast[cblk] = (IF cres = "trunk" THEN 1 ELSE 0)
    /\ \A b \in PackedBlocks : b \notin consented

\* a packed block was added on trunk, broadcast and acked
C10_Witness ==
    /\ lastRet = "packed"
    /\ cres = "trunk"
    /\ chain[cblk] = "trunk"
    /\ bcast[cblk] = 1
    /\ nAck >= 1

\* ------------------------------------------------------------------ facade properties
\* the step is a call of one of the facade operations named
IsCall(ops) == nOps' = nOps + 1 /\ lastOp'.op \in ops

\* C5: RevertToSnapshot(r), for a revision r returned by Snapshot(), restores every
\* observable of the facade (balance, code, storage, existence, suicide flag,
\* refund, logs, preimages) to its value immediately before that Snapshot() call.
C5_RevertRestores ==
    [][(IsCall({"RevertToSnapshot"}) /\ ~lastOp'.panic /\ lastOp'.arg \in DOMAIN saved)
         => Observables' = saved[lastOp'.arg]]_vars

\* C7: AddBalance and SubBalance with amount 0 make no call on the State and leave
\* State, checkpoints, journal and every observable as they were; with another
\* amount the balance of the address becomes the old balance plus (minus) the
\* amount, also below zero, and nothing else changes.
C7_ZeroAmountNoOp ==
    [][IsCall({"AddBalance", "SubBalance"})
         => LET a == lastOp'.addr
                amount == lastOp'.arg
            IN IF amount = 0
                  THEN /\ lastOp'.reads = 0 /\ lastOp'.writes = 0
                       /\ UNCHANGED <<state, checkpoints, repo>>
                       /\ Observables' = Observables
                  ELSE /\ StateGetBalance(state', a)
                            = (IF lastOp'.op = "AddBalance"
                                  THEN GetBalance(a) + amount
                                  ELSE GetBalance(a) - amount)
                       /\ \A b \in Addrs \ {a} : state'[b] = state[b]
                       /\ state'[a].code = state[a].code
                       /\ state'[a].storage = state[a].storage
                       /\ UNCHANGED <<checkpoints, repo>>]_vars

\* a subtraction went below zero, and the last call was an addition of 0
C7_Witness ==
    /\ lastOp.op = "AddBalance"
    /\ lastOp.arg = 0
    /\ lastOp.reads = 0
    /\ \E a \in Addrs : GetBalance(a) < 0

\* C8: Suicide(a) on an address that does not exist returns false and leaves State
\* and journal untouched, so HasSuicided(a) keeps its value; on an existing address
\* it returns true, and afterwards Exist(a) is false and HasSuicided(a) is true.
C8_Suicide ==
    [][IsCall({"Suicide"})
         => LET a == lastOp'.addr
            IN IF ~Exist(a)
                  THEN /\ lastOp'.ret = FALSE
                       /\ lastOp'.writes = 0
                       /\ UNCHANGED <<state, checkpoints, repo>>
                       /\ RepoGet(repo', SuicideFlagKey(a)) = HasSuicided(a)
                  ELSE /\ lastOp'.ret = TRUE
                       /\ ~StateExists(state', a)
                       /\ RepoGet(repo', SuicideFlagKey(a)) = TRUE]_vars

\* Suicide returned true for one address, and later false for an address that
\* does not exist and was never flagged
C8_Witness ==
    /\ lastOp.op = "Suicide"
    /\ lastOp.ret = FALSE
    /\ ~HasSuicided(lastOp.addr)
    /\ \E b \in Addrs : HasSuicided(b) /\ ~Exist(b)

\* C11: the journal depth always equals the number of checkpoints the facade has
\* open on the State: Snapshot() makes exactly one NewCheckpoint() and one Push(),
\* and a valid RevertToSnapshot(rev) makes exactly depth - rev Revert() calls and
\* leaves the journal at depth rev.
C11_DepthMatchesCheckpoints ==
    /\ [](RepoDepth(repo) = Len(checkpoints))
    /\ [][IsCall({"Snapshot"})
            => /\ Len(checkpoints') = Len(checkpoints) + 1
               /\ RepoDepth(repo') = RepoDepth(repo) + 1
               /\ lastOp'.writes = 1]_vars
    /\ [][(IsCall({"RevertToSnapshot"}) /\ ~lastOp'.panic)
            => /\ lastOp'.writes = RepoDepth(repo) - lastOp'.arg
               /\ Len(checkpoints') = Len(checkpoints) - lastOp'.writes
               /\ RepoDepth(repo') = lastOp'.arg]_vars

\* a revert across two frames left one frame and one checkpoint open
C11_Witness ==
    /\ lastOp.op = "RevertToSnapshot"
    /\ ~lastOp.panic
    /\ lastOp.writes = 2
    /\ RepoDepth(repo) = 1
    /\ Len(checkpoints) = 1

\* C12: when the non-blocking send on bestBlockUpdate is dropped for an accepted
\* trunk block T, the pack loop is not in its wait window, and the next wait window
\* it enters was prepared from a best block read after T was added; hence the pack
\* loop never waits on a best block that a network trunk block superseded before
\* the wait began.
C12_DroppedSignalHarmless ==
    /\ [][(cpc = "netNotify" /\ lastRet' = "trunkDropped")
            => /\ ppc # "wait"
               /\ ppc \in {"prepare", "park"} => pbest = best]_vars
    /\ []((ppc = "wait" /\ cpc \notin {"netBroadcast", "netNotify"}) => pbest = best)

C14_LogsAppend ==
    /\ [][IsCall({"AddLog"})
            => GetLogs' = Append(GetLogs, vmlogToLog(lastOp'.arg))]_vars
    /\ [][IsCall({"Snapshot"}) => GetLogs' = GetLogs]_vars

\* C15: GetRefund() is the sum of the AddRefund amounts made in frames that have
\* not been reverted, 0 if there is none: AddRefund(gas) raises it by gas,
\* Snapshot() leaves it alone, and RevertToSnapshot(r) for a revision r returned by
\* Snapshot() takes it back to its value before that Snapshot(), so that a refund
\* added above the reverted snapshot counts for nothing and one added below it is
\* still counted.
C15_RefundSum ==
    /\ [](nOps = 0 => GetRefund = 0)
    /\ [][IsCall({"AddRefund"}) => GetRefund' = GetRefund + lastOp'.arg]_vars
    /\ [][IsCall({"Snapshot"}) => GetRefund' = GetRefund]_vars
    /\ [][(IsCall({"RevertToSnapshot"}) /\ ~lastOp'.panic
              /\ lastOp'.arg \in DOMAIN saved)
            => GetRefund' = saved[lastOp'.arg].refund]_vars

\* C16: RevertToSnapshot(rev) with rev < 0 or rev > depth panics before it has
\* done anything: no Revert() on the State, journal depth and contents as they
\* were; with 0 <= rev <= depth it does not panic.
C16_InvalidRevisionPanics ==
    [][IsCall({"RevertToSnapshot"})
         => LET rev == lastOp'.arg
            IN IF rev < 0 \/ rev > RepoDepth(repo)
                  THEN /\ lastOp'.panic
                       /\ lastOp'.writes = 0
                       /\ UNCHANGED <<state, checkpoints, repo>>
                  ELSE ~lastOp'.panic]_vars

\* with a frame open and a refund recorded, a revision one past the depth panicked
C16_Witness ==
    /\ lastOp.op = "RevertToSnapshot"
    /\ lastOp.panic
    /\ lastOp.arg = RepoDepth(repo) + 1
    /\ RepoDepth(repo) >= 1
    /\ GetRefund > 0

\* C17: in a pack attempt the adoption loop starts only when the timer has fired;
\* it draws one transaction per iteration and goes on after every adopt result
\* but GasLimitReached, until the iterator is exhausted; then commit is called
\* once; a block is sent on newBlockPacked only after a successful commit, and a
\* failed commit ends the attempt with no send and no wait for an ack.
C17_PackAttemptOrder ==
    /\ [][(ppc' = "adopt" /\ ppc # "adopt") => (ppc = "wait" /\ perr' = "none")]_vars
    /\ [][txPos' # txPos
            => /\ ppc = "adopt"
               /\ txPos' = txPos + 1
               /\ adoptCalls'[txPos'] = adoptCalls[txPos'] + 1
               /\ perr' \in AdoptResults
               /\ ppc' = IF perr' = "gasLimitReached" THEN "commit" ELSE "adopt"]_vars
    /\ [][(ppc' = "commit" /\ ppc # "commit")
            => /\ ppc = "adopt"
               /\ \/ txPos' = txPos + 1 /\ perr' = "gasLimitReached"
                  \/ txPos' = txPos /\ txPos = NumTx]_vars
    /\ [][(ppc = "commit" /\ ppc' # "commit")
            => \/ /\ ppc' = "sendPacked"
                  /\ nPacked' = nPacked + 1
                  /\ pblk' \in PackedBlocks
               \/ ppc' = "tick" /\ UNCHANGED <<nPacked, nSent, nAck>>]_vars
    /\ [][nSent' # nSent
            => ppc = "sendPacked" /\ ppc' = "waitAck" /\ nSent' = nSent + 1]_vars
    /\ [](ppc \in {"sendPacked", "waitAck"}
            => /\ pblk \in PackedBlocks
               /\ nPacked = nSent + (IF ppc = "sendPacked" THEN 1 ELSE 0))

\* after a first block was sent and acknowledged, a later attempt left its
\* adoption loop on GasLimitReached
C17_Witness ==
    /\ ppc = "commit"
    /\ perr = "gasLimitReached"
    /\ nSent >= 1
    /\ nAck >= 1

\* C18: the revision tokens Snapshot() returns are strictly increasing and never
\* reused, under every interleaving of Snapshot and RevertToSnapshot.
C18_TokensIncrease ==
    \A i, j \in 1..Len(issued) : i < j => issued[i] < issued[j]

\* C18, amended: the token Snapshot() returns is the journal depth after its push,
\* one more than the depth before the call: tokens increase as long as nothing is
\* reverted, and after RevertToSnapshot(rev) the next Snapshot() returns rev + 1,
\* a token that may have been returned before.
C18_TokenIsDepth ==
    /\ [][IsCall({"Snapshot"})
            => /\ lastOp'.ret = RepoDepth(repo) + 1
               /\ lastOp'.ret = RepoDepth(repo')
               /\ issued' = Append(issued, lastOp'.ret)]_vars
    /\ [][(IsCall({"RevertToSnapshot"}) /\ ~lastOp'.panic)
            => RepoDepth(repo') = lastOp'.arg /\ issued' = issued]_vars

\* Snapshot() returned token 1 a second time, after a revert to 0
C18_Witness ==
    /\ lastOp.op = "Snapshot"
    /\ lastOp.ret = 1
    /\ Len(issued) >= 2
    /\ issued[Len(issued) - 1] = 1

\* C19: while a packed block P is in the handoff, from its receipt by the consent
\* goroutine until the pack goroutine has received the ack, the consent loop
\* takes no block from the network, and every AddBlock, BroadcastBlock and
\* bestBlockUpdate signal of that interval is for P.
C19_HandoffExclusive ==
    [][ppc = "waitAck"
         => /\ nDeliv' = nDeliv
            /\ nUpd' = nUpd
            /\ \A b \in Blocks \ {pblk} :
                  /\ chain'[b] = chain[b]
                  /\ addCalls'[b] = addCalls[b]
                  /\ bcast'[b] = bcast[b]]_vars

\* C20: txIter is one stream shared by all pack attempts and never restarted:
\* every transaction is passed to adopt at most once over the whole run, whatever
\* adopt returned and whether or not the attempt's commit succeeded, and the
\* adoption loop of an attempt ends: each iteration draws one more of the
\* finitely many transactions.
C20_EachTxAdoptedOnce ==
    /\ [](txPos \in 0..NumTx)
    /\ [](\A t \in Txs : adoptCalls[t] = (IF t <= txPos THEN 1 ELSE 0))
    /\ [][txPos' >= txPos]_vars
    /\ [][(ppc = "adopt" /\ packVars' # packVars)
            => \/ ppc' = "commit"
               \/ ppc' = "adopt" /\ txPos' = txPos + 1]_vars

\* an attempt enters its adoption loop with the iterator already used up by
\* earlier attempts, none of which committed a block
C20_Witness ==
    /\ ppc = "adopt"
    /\ perr = "none"
    /\ txPos = NumTx
    /\ nPacked = 0
    /\ \A t \in Txs : adoptCalls[t] = 1

====
